---- MODULE Spec2Model ----
(***************************************************************************)
(* A model of the OpenSRS client of fini-net/macaw: the XML codec          *)
(* (src/opensrs/xml.rs), the request path (src/opensrs/client.rs) and the  *)
(* paginated query (src/opensrs/domain.rs).                                *)
(*                                                                         *)
(* Text that the code inspects (text nodes of a response) is a sequence of *)
(* one-character strings, so that trim, to_lowercase and parse are         *)
(* computed and not assumed.  Text that the code only copies or compares   *)
(* with a literal (element names, the key attribute, the fields of a       *)
(* request) is a TLA+ string.                                              *)
(*                                                                         *)
(* A response document is the sequence of events quick_xml's reader yields *)
(* for it (the tokenizer is a library, not code of this repository); the   *)
(* end of the sequence is Event::Eof.  A request document is the sequence  *)
(* of its tags and text nodes, layout whitespace between tags left out.    *)
(***************************************************************************)
EXTENDS Integers, Sequences, FiniteSets, TLC

VARIABLES
    \* ---- one get_domains_by_expiredate call per call id (domain.rs) ----
    pc,           \* position of each call
    args,         \* (exp_from, exp_to) of each call
    page,         \* let mut page = 0u32
    all_domains,  \* let mut all_domains = Vec::new()
    wire,         \* the HTTP request that is outstanding, or None
    body,         \* the response body read from the transport, or None
    response,     \* the response send_request returned, or None
    result,       \* what the call returned, or None
    requests,     \* history: the requests the call has issued (first MaxLog)
    replies,      \* history: what send_request returned for each (first MaxLog)
    \* ---- one run of deserialize_response (xml.rs) ----
    xml_in,       \* the document, as the events the reader yields
    xml_pos,      \* number of events read so far
    scan,         \* the locals of deserialize_response
    xml_out,      \* what deserialize_response returned, or None
    \* ---- one run of serialize_request (xml.rs) ----
    ser_req,      \* the request handed to serialize_request
    ser_out,      \* what serialize_request returned, or None
    \* ---- one run of generate_signature (auth.rs) ----
    sig_xml,      \* xml_content
    sig_key,      \* api_key
    sig_out,      \* what generate_signature returned, or None
    \* ---- one run of calculate_content_length (xml.rs) ----
    len_in,       \* the document, as its characters (code points)
    len_out       \* Some(what calculate_content_length returned), or None

vars == <<pc, args, page, all_domains, wire, body, response, result, requests,
          replies, xml_in, xml_pos, scan, xml_out, ser_req, ser_out,
          sig_xml, sig_key, sig_out, len_in, len_out>>

engineVars == <<pc, args, page, all_domains, wire, body, response, result,
                requests, replies>>
xmlVars == <<xml_in, xml_pos, scan, xml_out>>
serVars == <<ser_req, ser_out>>
sigVars == <<sig_xml, sig_key, sig_out>>
lenVars == <<len_in, len_out>>
pureVars == <<sigVars, lenVars>>

None == [kind |-> "None"]

-----------------------------------------------------------------------------
(* Text as a sequence of characters                                        *)

Digit == {"0", "1", "2", "3", "4", "5", "6", "7", "8", "9"}

DigitValue(c) == CHOOSE d \in 0..9 : ToString(d) = c

IsWhitespace(c) == c \in {" ", "\t", "\n", "\r"}

RECURSIVE TrimStart(_)
TrimStart(s) ==
    IF s # <<>> /\ IsWhitespace(Head(s)) THEN TrimStart(Tail(s)) ELSE s

RECURSIVE TrimEnd(_)
TrimEnd(s) ==
    IF s # <<>> /\ IsWhitespace(s[Len(s)])
    THEN TrimEnd(SubSeq(s, 1, Len(s) - 1))
    ELSE s

\* str::trim
Trim(s) == TrimEnd(TrimStart(s))

UpperLetters == <<"A", "B", "C", "D", "E", "F", "G", "H", "I", "J", "K", "L", "M",
                  "N", "O", "P", "Q", "R", "S", "T", "U", "V", "W", "X", "Y", "Z">>
LowerLetters == <<"a", "b", "c", "d", "e", "f", "g", "h", "i", "j", "k", "l", "m",
                  "n", "o", "p", "q", "r", "s", "t", "u", "v", "w", "x", "y", "z">>

LowerChar(c) ==
    IF \E i \in 1..Len(UpperLetters) : UpperLetters[i] = c
    THEN LowerLetters[CHOOSE i \in 1..Len(UpperLetters) : UpperLetters[i] = c]
    ELSE c

\* str::to_lowercase
ToLowercase(s) == [i \in 1..Len(s) |-> LowerChar(s[i])]

RECURSIVE StripZeros(_)
StripZeros(ds) ==
    IF Len(ds) > 1 /\ Head(ds) = "0" THEN StripZeros(Tail(ds)) ELSE ds

RECURSIVE DigitsValue(_)
DigitsValue(ds) ==
    IF ds = <<>> THEN 0
    ELSE 10 * DigitsValue(SubSeq(ds, 1, Len(ds) - 1)) + DigitValue(ds[Len(ds)])

U32MaxDigits == <<"4", "2", "9", "4", "9", "6", "7", "2", "9", "5">>
U8MaxDigits == <<"2", "5", "5">>

\* ds <= limit for two digit strings without leading zeros
DigitsAtMost(ds, limit) ==
    \/ Len(ds) < Len(limit)
    \/ /\ Len(ds) = Len(limit)
       /\ \/ ds = limit
          \/ \E i \in 1..Len(ds) :
                /\ \A j \in 1..(i - 1) : ds[j] = limit[j]
                /\ DigitValue(ds[i]) < DigitValue(limit[i])

\* Mutant: the leading digits are the number, whatever follows them.
ParseUnsigned_DigitPrefix(text, maxDigits) ==
    LET n == Cardinality({i \in 1..Len(text) : \A j \in 1..i : text[j] \in Digit})
        ds == SubSeq(text, 1, n)
    IN  IF n = 0 THEN [ok |-> FALSE, value |-> 0]
        ELSE IF DigitsAtMost(StripZeros(ds), maxDigits)
             THEN [ok |-> TRUE, value |-> DigitsValue(StripZeros(ds))]
             ELSE [ok |-> FALSE, value |-> 0]

\* <unsigned>::from_str: an optional '+', then one or more decimal digits,
\* nothing else (no blanks, no '-'); Err when the value exceeds the type.
\* The value of an accepted text is a TLC integer, so texts
\* above 2^31 - 1 are kept out of the inputs.
ParseUnsigned(text, maxDigits) ==
    LET ds == IF text # <<>> /\ Head(text) = "+" THEN Tail(text) ELSE text
    IN  IF ds = <<>> \/ (\E i \in 1..Len(ds) : ds[i] \notin Digit)
        THEN [ok |-> FALSE, value |-> 0]
        ELSE IF DigitsAtMost(StripZeros(ds), maxDigits)
             THEN [ok |-> TRUE, value |-> DigitsValue(StripZeros(ds))]
             ELSE [ok |-> FALSE, value |-> 0]

\* Result::unwrap_or
UnwrapOr(r, default) == IF r.ok THEN r.value ELSE default

-----------------------------------------------------------------------------
(* The events of quick_xml's reader                                        *)

\* One item of e.attributes(): Ok(Attribute) or Err(AttrError).
AttrOk(k, v) == [ok |-> TRUE, key |-> k, value |-> v]
AttrErr == [ok |-> FALSE, key |-> "", value |-> ""]

StartEv(name, attrs) == [type |-> "Start", name |-> name, attrs |-> attrs]
EndEv(name) == [type |-> "End", name |-> name]
\* Event::Text whose unescape() gives Ok(text)
TextEv(text) == [type |-> "Text", ok |-> TRUE, text |-> text]
\* Event::Text whose unescape() gives Err (an unknown or unterminated entity)
BadTextEv == [type |-> "Text", ok |-> FALSE, text |-> <<>>]
\* Err(_) of read_event_into: the reader met markup it cannot parse
ErrEv == [type |-> "Err"]
\* Empty, Comment, CData, Decl, PI, DocType: the `_ => {}` arm
OtherEv == [type |-> "Other"]

Item(key) == StartEv("item", <<AttrOk("key", key)>>)
ItemEnd == EndEv("item")

-----------------------------------------------------------------------------
(* deserialize_response (xml.rs)                                           *)

ExpiringDomain(name, expiredate, f_auto_renew, f_let_expire) ==
    [name |-> name, expiredate |-> expiredate,
     f_auto_renew |-> f_auto_renew, f_let_expire |-> f_let_expire]

\* Mutant: a response is a success until it says otherwise.
ScanInit_SuccessByDefault ==
    [is_success |-> TRUE, response_code |-> <<>>, response_text |-> <<>>,
     page |-> 0, total |-> 0, remainder |-> 0, exp_domains |-> <<>>,
     current_key |-> "", in_data_block |-> FALSE, in_attributes |-> FALSE,
     in_exp_domains |-> FALSE, current_domain |-> None]

\* The locals of deserialize_response before its loop.
ScanInit ==
    [is_success |-> FALSE, response_code |-> <<>>, response_text |-> <<>>,
     page |-> 0, total |-> 0, remainder |-> 0, exp_domains |-> <<>>,
     current_key |-> "", in_data_block |-> FALSE, in_attributes |-> FALSE,
     in_exp_domains |-> FALSE, current_domain |-> None]

\* for attr in e.attributes(): the last well-formed key attribute wins,
\* an attribute the iterator reports as Err is skipped.
RECURSIVE KeyAfter(_, _)
KeyAfter(key, attrs) ==
    IF attrs = <<>> THEN key
    ELSE KeyAfter(IF Head(attrs).ok /\ Head(attrs).key = "key"
                  THEN Head(attrs).value ELSE key,
                  Tail(attrs))

\* Mutant: an item start-tag without a key attribute clears the current key.
OnStart_KeylessClears(s, ev) ==
    IF ev.name = "data_block" THEN [s EXCEPT !.in_data_block = TRUE]
    ELSE IF ev.name = "item"
         THEN [s EXCEPT !.current_key = KeyAfter("", ev.attrs)]
         ELSE s

OnStart(s, ev) ==
    IF ev.name = "data_block" THEN [s EXCEPT !.in_data_block = TRUE]
    ELSE IF ev.name = "item"
         THEN [s EXCEPT !.current_key = KeyAfter(s.current_key, ev.attrs)]
         ELSE s

\* Mutant: "true" is compared as written.
IsSuccessText_CaseSensitive(text) ==
    text = <<"1">> \/ text = <<"t", "r", "u", "e">>

IsSuccessText(text) ==
    text = <<"1">> \/ ToLowercase(text) = <<"t", "r", "u", "e">>

\* The match on current_key; an arm whose guard fails falls through to `_`.
OnKeyedText(s, text) ==
    LET k == s.current_key
        d == s.current_domain
    IN  CASE k = "is_success" -> [s EXCEPT !.is_success = IsSuccessText(text)]
          [] k = "response_code" -> [s EXCEPT !.response_code = text]
          [] k = "response_text" -> [s EXCEPT !.response_text = text]
          [] k = "page" ->
                [s EXCEPT !.page = UnwrapOr(ParseUnsigned(text, U32MaxDigits), 0)]
          [] k = "total" ->
                [s EXCEPT !.total = UnwrapOr(ParseUnsigned(text, U32MaxDigits), 0)]
          [] k = "remainder" ->
                [s EXCEPT !.remainder = UnwrapOr(ParseUnsigned(text, U8MaxDigits), 0)]
          [] k = "name" /\ s.in_exp_domains ->
                IF d # None
                THEN [s EXCEPT !.current_domain = [d EXCEPT !.name = text]]
                ELSE [s EXCEPT !.current_domain =
                                    ExpiringDomain(text, <<>>, <<>>, <<>>)]
          [] k = "expiredate" /\ s.in_exp_domains ->
                IF d # None
                THEN [s EXCEPT !.current_domain = [d EXCEPT !.expiredate = text]]
                ELSE s
          [] k = "f_auto_renew" /\ s.in_exp_domains ->
                IF d # None
                THEN [s EXCEPT !.current_domain = [d EXCEPT !.f_auto_renew = text]]
                ELSE s
          [] k = "f_let_expire" /\ s.in_exp_domains ->
                IF d # None
                THEN [s EXCEPT !.exp_domains =
                                    Append(@, [d EXCEPT !.f_let_expire = text]),
                                !.current_domain = None]
                ELSE s
          [] k = "attributes" -> [s EXCEPT !.in_attributes = TRUE]
          [] k = "exp_domains" -> [s EXCEPT !.in_exp_domains = TRUE]
          [] OTHER -> s

\* Mutant: expiredate text puts a record in progress when none is.
OnText_ExpiredateStarts(s, ev) ==
    IF ~s.in_data_block THEN s
    ELSE LET text == Trim(IF ev.ok THEN ev.text ELSE <<>>)
         IN  IF text = <<>> THEN s
             ELSE IF /\ s.current_key = "expiredate" /\ s.in_exp_domains
                     /\ s.current_domain = None
                  THEN [s EXCEPT !.current_domain =
                                      ExpiringDomain(<<>>, text, <<>>, <<>>)]
                  ELSE OnKeyedText(s, text)

OnText(s, ev) ==
    IF ~s.in_data_block THEN s
    ELSE LET text == Trim(IF ev.ok THEN ev.text ELSE <<>>)
         IN  IF text = <<>> THEN s ELSE OnKeyedText(s, text)

\* Mutant: the end-tag of the data block does not end the reading of fields.
OnEnd_StaysInside(s, ev) == s

OnEnd(s, ev) ==
    IF ev.name = "data_block" THEN [s EXCEPT !.in_data_block = FALSE] ELSE s

\* Mutant: text under a key that is not known ends the reading of fields.
ScanEvent_StrictKeys(s, ev) ==
    CASE ev.type = "Start" -> OnStart(s, ev)
      [] ev.type = "Text" ->
            IF s.in_data_block /\ s.current_key = "zzz" /\ ev.ok /\ Trim(ev.text) # <<>>
            THEN [s EXCEPT !.in_data_block = FALSE]
            ELSE OnText(s, ev)
      [] ev.type = "End" -> OnEnd(s, ev)
      [] OTHER -> s

\* One turn of the loop for an event that neither ends nor fails the scan.
ScanEvent(s, ev) ==
    CASE ev.type = "Start" -> OnStart(s, ev)
      [] ev.type = "Text" -> OnText(s, ev)
      [] ev.type = "End" -> OnEnd(s, ev)
      [] OTHER -> s

\* Ok(GetDomainsByExpireDateResponse { .. })
ResponseOf(s) ==
    [kind |-> "Ok", is_success |-> s.is_success,
     response_code |-> s.response_code, response_text |-> s.response_text,
     attributes |-> [page |-> s.page, total |-> s.total,
                     remainder |-> s.remainder, exp_domains |-> s.exp_domains]]

\* Err(OpenSrsError::XmlDeserialize(..))
XmlDeserializeError == [kind |-> "XmlDeserialize"]

\* The loop over events lo..hi of the document, entered with locals s: the
\* locals after them, or the error when the reader reports one (the scan
\* stops there).  The events are taken in order; the range is split in two
\* and each half evaluated before the next only to keep the evaluation of a
\* long document shallow.
RECURSIVE ScanRange(_, _, _, _)
ScanRange(s, doc, lo, hi) ==
    IF s = XmlDeserializeError \/ lo > hi THEN s
    ELSE IF lo = hi
         THEN IF doc[lo].type = "Err" THEN XmlDeserializeError
              ELSE ScanEvent(s, doc[lo])
         ELSE CHOOSE r \in {ScanRange(m, doc, ((lo + hi) \div 2) + 1, hi) :
                               m \in {ScanRange(s, doc, lo, (lo + hi) \div 2)}} : TRUE

\* Event::Eof ends the loop with Ok(response); an Err of the reader returns.
deserialize_response(doc) ==
    LET end == ScanRange(ScanInit, doc, 1, Len(doc))
    IN  IF end = XmlDeserializeError THEN end ELSE ResponseOf(end)

-----------------------------------------------------------------------------
(* Response documents: the inputs of deserialize_response                   *)

MaxRecords == 2

\* <item key="K">text</item>; with trim_text(true) the reader yields no
\* Text event for an element without text.
TextItem(key, text) ==
    <<Item(key)>> \o (IF text = <<>> THEN <<>> ELSE <<TextEv(text)>>) \o <<ItemEnd>>

\* One element of the dt_array: <item key="i"><dt_assoc> four items </dt_assoc></item>
RecordItems(i, d) ==
    <<Item(ToString(i)), StartEv("dt_assoc", <<>>)>>
    \o TextItem("name", d.name) \o TextItem("expiredate", d.expiredate)
    \o TextItem("f_auto_renew", d.f_auto_renew)
    \o TextItem("f_let_expire", d.f_let_expire)
    \o <<EndEv("dt_assoc"), ItemEnd>>

RECURSIVE RecordsFrom(_, _)
RecordsFrom(i, ds) ==
    IF ds = <<>> THEN <<>>
    ELSE RecordItems(i, Head(ds)) \o RecordsFrom(i + 1, Tail(ds))

\* A response of the OpenSRS dialect.  f.exp_text is text the exp_domains
\* item carries before its dt_array (none in the vendor's responses).
ResponseAround(f, records) ==
    <<OtherEv, OtherEv, StartEv("OPS_envelope", <<>>), StartEv("header", <<>>),
      StartEv("version", <<>>), TextEv(<<"0", ".", "9">>), EndEv("version"),
      EndEv("header"), StartEv("body", <<>>), StartEv("data_block", <<>>),
      StartEv("dt_assoc", <<>>)>>
    \o TextItem("protocol", <<"X", "C", "P">>)
    \o TextItem("is_success", f.is_success)
    \o TextItem("response_code", f.response_code)
    \o TextItem("response_text", f.response_text)
    \o <<Item("attributes"), StartEv("dt_assoc", <<>>), Item("exp_domains")>>
    \o (IF f.exp_text = <<>> THEN <<>> ELSE <<TextEv(f.exp_text)>>)
    \o <<StartEv("dt_array", <<>>)>> \o records
    \o <<EndEv("dt_array"), ItemEnd>>
    \o TextItem("page", f.page) \o TextItem("total", f.total)
    \o TextItem("remainder", f.remainder)
    \o <<EndEv("dt_assoc"), ItemEnd, EndEv("dt_assoc"), EndEv("data_block"),
         EndEv("body"), EndEv("OPS_envelope")>>

ResponseDoc(f) == ResponseAround(f, RecordsFrom(0, f.domains))

DomainA == ExpiringDomain(<<"a", ".", "c">>, <<"2", "6", "-", "0", "1">>, <<"1">>, <<"0">>)
DomainB == ExpiringDomain(<<"b", ".", "c">>, <<"2", "7", "-", "1", "2">>, <<"0">>, <<"1">>)
WireDomains == {DomainA, DomainB}

RECURSIVE SeqsUpTo(_, _)
SeqsUpTo(S, n) ==
    IF n = 0 THEN {<<>>}
    ELSE LET shorter == SeqsUpTo(S, n - 1)
         IN  shorter \cup {Append(q, x) : q \in {r \in shorter : Len(r) = n - 1}, x \in S}

RemainderTexts == {<<"0">>, <<"1">>, <<"2", "5", "5">>, <<"2", "5", "6">>}

Fields(succ, code, text, exp_text, domains, pg, total, rem) ==
    [is_success |-> succ, response_code |-> code, response_text |-> text,
     exp_text |-> exp_text, domains |-> domains, page |-> pg, total |-> total,
     remainder |-> rem]

\* Well-formed responses: successes of the vendor's shape and with text in
\* the exp_domains item, and failures.
GoodFields ==
    {Fields(<<"1">>, <<"2", "0", "0">>, <<"o", "k">>, x, ds, <<"0">>, <<"2">>, r) :
        x \in {<<>>, <<"x">>}, ds \in SeqsUpTo(WireDomains, MaxRecords),
        r \in RemainderTexts}
    \cup
    {Fields(<<"0">>, <<"4", "1", "5">>, <<"n", "o">>, <<>>, <<>>, <<"0">>, <<"0">>, r) :
        r \in {<<"0">>, <<"1">>}}

GoodDocs == {ResponseDoc(f) : f \in GoodFields}

Ok200(exp_text, domains, rem) ==
    ResponseDoc(Fields(<<"1">>, <<"2", "0", "0">>, <<"o", "k">>, exp_text, domains,
                       <<"0">>, <<"2">>, rem))

\* Well-formed bodies without is_success text in a data block: the empty
\* document, an envelope without a data block (its items, is_success among
\* them, lie in the body element), and a response whose is_success item has
\* no text while code, message and page have.
NoDataBlockDoc ==
    <<OtherEv, StartEv("OPS_envelope", <<>>), StartEv("body", <<>>),
      StartEv("dt_assoc", <<>>)>>
    \o TextItem("is_success", <<"1">>)
    \o TextItem("response_code", <<"2", "0", "0">>)
    \o TextItem("remainder", <<"1">>)
    \o <<EndEv("dt_assoc"), EndEv("body"), EndEv("OPS_envelope")>>

NoSuccessDocs ==
    {<<>>, NoDataBlockDoc,
     ResponseDoc(Fields(<<>>, <<"4", "1", "5">>, <<"n", "o">>, <<>>, <<>>,
                        <<"5">>, <<"0">>, <<"0">>))}

\* Two servers for the same query: the second answers as the first does but
\* for the page and total fields of its responses.
PairFields ==
    {Fields(<<"1">>, <<"2", "0", "0">>, <<"o", "k">>, <<>>, <<>>, <<"0">>, <<"2">>, <<"1">>),
     Fields(<<"1">>, <<"2", "0", "0">>, <<"o", "k">>, <<"x">>, <<DomainB, DomainA>>,
            <<"0">>, <<"2">>, <<"0">>),
     Fields(<<"0">>, <<"4", "1", "5">>, <<"n", "o">>, <<>>, <<>>, <<"0">>, <<"0">>, <<"0">>)}

OtherPageTotal(f) == [f EXCEPT !.page = <<"7">>, !.total = <<"0">>]

PairDocs(c) ==
    IF c = "a" THEN {ResponseDoc(f) : f \in PairFields}
    ELSE {ResponseDoc(OtherPageTotal(f)) : f \in PairFields}

\* Bodies the server may answer with: successes (an empty page of the
\* vendor's shape, pages whose exp_domains item carries text before its
\* records), failures, a body the reader cannot parse, and bodies without
\* is_success text.
EngineDocs ==
    {Ok200(p[1], p[2], r) :
        p \in {<<<<>>, <<>>>>, <<<<"x">>, <<DomainA>>>>, <<<<"x">>, <<DomainB, DomainA>>>>},
        r \in {<<"0">>, <<"1">>}}
    \cup {Ok200(<<"x">>, <<DomainA>>, <<"2", "5", "6">>)}
    \cup {ResponseDoc(Fields(<<"0">>, <<"4", "1", "5">>, <<"n", "o">>, <<>>, <<>>,
                             <<"0">>, <<"0">>, <<"0">>)),
          ResponseDoc(Fields(<<"0">>, <<"5">>, <<"e">>, <<>>, <<>>,
                             <<"0">>, <<"0">>, <<"1">>))}
    \cup {<<OtherEv, StartEv("OPS_envelope", <<>>), ErrEv>>}
    \cup NoSuccessDocs

\* The number of domain records in a body.
WireRecords(doc) == Cardinality({i \in 1..Len(doc) : doc[i] = Item("name")})

\* deserialize_response over the bodies the transport can deliver (those of
\* the one server and of the second server of the pair), tabulated (the
\* table is evaluated once).
ParsedBodies ==
    [doc \in EngineDocs \cup PairDocs("a") \cup PairDocs("b") |-> deserialize_response(doc)]

-----------------------------------------------------------------------------
(* serialize_request (xml.rs)                                              *)

Some(v) == [kind |-> "Some", value |-> v]

Open(name) == "<" \o name \o ">"
Close(name) == "</" \o name \o ">"
ItemOpen(key) == "<item key=\"" \o key \o "\">"
\* push_str of a value: a text node, none when the value is empty
TextNode(v) == IF v = "" THEN <<>> ELSE <<v>>

\* Mutant: an unset field is rendered as an empty item.
OptionalItem_Empty(key, opt) ==
    <<ItemOpen(key)>>
    \o (IF opt # None THEN TextNode(ToString(opt.value)) ELSE <<>>)
    \o <<Close("item")>>

\* if let Some(v) = .. { push the item } for limit and for page: nothing at
\* all is pushed for None.
OptionalItem(key, opt) ==
    IF opt # None
    THEN <<ItemOpen(key)>> \o TextNode(ToString(opt.value)) \o <<Close("item")>>
    ELSE <<>>

\* Ok(xml): the result has no Err path.
serialize_request(request) ==
    LET head == <<"<?xml version='1.0' encoding='UTF-8' standalone='no' ?>",
                  "<!DOCTYPE OPS_envelope SYSTEM 'ops.dtd'>",
                  Open("OPS_envelope"), Open("header"), Open("version"), "0.9",
                  Close("version"), Close("header"), Open("body"),
                  Open("data_block"), Open("dt_assoc"), ItemOpen("protocol")>>
        x1 == head \o TextNode(request.protocol)
        x2 == x1 \o <<Close("item"), ItemOpen("object")>>
        x3 == x2 \o TextNode(request.object)
        x4 == x3 \o <<Close("item"), ItemOpen("action")>>
        x5 == x4 \o TextNode(request.action)
        x6 == x5 \o <<Close("item"), ItemOpen("attributes"), Open("dt_assoc"),
                      ItemOpen("exp_from")>>
        x7 == x6 \o TextNode(request.attributes.exp_from)
        x8 == x7 \o <<Close("item"), ItemOpen("exp_to")>>
        x9 == x8 \o TextNode(request.attributes.exp_to)
        x10 == x9 \o <<Close("item")>>
        x11 == x10 \o OptionalItem("limit", request.attributes.limit)
        x12 == x11 \o OptionalItem("page", request.attributes.page)
        x13 == x12 \o <<Close("dt_assoc"), Close("item"), Close("dt_assoc"),
                        Close("data_block"), Close("body"), Close("OPS_envelope")>>
    IN  [kind |-> "Ok", xml |-> x13]

-----------------------------------------------------------------------------
(* calculate_content_length (xml.rs)                                       *)

\* The UTF-8 encoding of one character, given as its code point.
Utf8(cp) ==
    IF cp < 128 THEN <<cp>>
    ELSE IF cp < 2048 THEN <<192 + (cp \div 64), 128 + (cp % 64)>>
    ELSE IF cp < 65536
         THEN <<224 + (cp \div 4096), 128 + ((cp \div 64) % 64), 128 + (cp % 64)>>
         ELSE <<240 + (cp \div 262144), 128 + ((cp \div 4096) % 64),
                128 + ((cp \div 64) % 64), 128 + (cp % 64)>>

\* xml.as_bytes(): a &str is stored as its UTF-8 bytes
RECURSIVE StrBytes(_)
StrBytes(xml) == IF xml = <<>> THEN <<>> ELSE Utf8(Head(xml)) \o StrBytes(Tail(xml))

\* Mutant: the characters are counted, not the bytes.
calculate_content_length_Chars(xml) == Len(xml)

\* xml.as_bytes().len()
calculate_content_length(xml) == Len(StrBytes(xml))

-----------------------------------------------------------------------------
(* generate_signature (auth.rs)                                            *)

\* The MD5 digest of a byte string (given as the chunks fed to update) and
\* its lowercase hex text, as terms.
Md5(chunks) == [md5 |-> chunks]
HexEncode(digest) == [hex |-> digest]

\* Md5::new(), hasher.update(data), hasher.finalize(): the hasher holds
\* what it was fed, in order.
Md5New == <<>>
Md5Update(hasher, data) == hasher \o data
Md5Finalize(hasher) == Md5(hasher)

\* first_hex.as_bytes(): the bytes of the text, fed as one piece
AsBytes(text) == <<text>>

\* Step 1: md5(xml + api_key), as hex text
FirstRound(xml_content, api_key) ==
    HexEncode(Md5Finalize(Md5Update(Md5Update(Md5New, xml_content), api_key)))

\* Mutant: the second round hashes the raw digest, not its hex text.
SecondRound_RawDigest(first_hex, api_key) ==
    HexEncode(Md5Finalize(Md5Update(Md5Update(Md5New, <<first_hex.hex>>), api_key)))

\* Step 2: md5(first_hex + api_key), as hex text
SecondRound(first_hex, api_key) ==
    HexEncode(Md5Finalize(Md5Update(Md5Update(Md5New, AsBytes(first_hex)), api_key)))

\* xml_content and api_key are given as the pieces of their byte strings.
generate_signature(xml_content, api_key) ==
    SecondRound(FirstRound(xml_content, api_key), api_key)

\* The length in bytes of a digest (md5: 16) and of the text hex::encode
\* makes of it (two lowercase hex digits for each byte).
DigestSize == 16
DigestLen(digest) == DigestSize
HexLen(text) == 2 * DigestLen(text.hex)

-----------------------------------------------------------------------------
(* OpenSrsClient::send_request (client.rs)                                 *)

Endpoint(environment) ==
    IF environment = "Production"
    THEN "https://rr-n1-tor.opensrs.net:55443"
    ELSE "https://horizon.opensrs.net:55443"

\* self.config of the one client every call uses
Config == [username |-> "reseller", credential |-> <<"s3cret">>, environment |-> "Test"]

\* Mutant: the signature is computed over the document without its prolog.
HttpPost_SignsWithoutProlog(xml) ==
    [url |-> Endpoint(Config.environment), content_type |-> "text/xml",
     x_username |-> Config.username,
     x_signature |-> generate_signature(Tail(Tail(xml)), Config.credential),
     body |-> xml]

\* The POST that send_request hands to the agent.
HttpPost(xml) ==
    [url |-> Endpoint(Config.environment), content_type |-> "text/xml",
     x_username |-> Config.username,
     x_signature |-> generate_signature(xml, Config.credential),
     body |-> xml]

HttpError == [kind |-> "HttpError"]

-----------------------------------------------------------------------------
(* OpenSrsClient::get_domains_by_expiredate (domain.rs)                    *)

Calls == {"a", "b"}

\* u32::MAX, scaled down so that the page counter's overflow is reachable
ScaledU32Max == 3
\* requests and replies of one call that the history variables record
MaxLog == 3
\* domain records the server holds for one query
MaxDomains == 3

NaiveDate(y, m, d) == [y |-> y, m |-> m, d |-> d]
Dates == {NaiveDate(2026, 1, 1), NaiveDate(2026, 12, 31)}
\* the ranges a caller asks for
Ranges == {<<NaiveDate(2026, 1, 1), NaiveDate(2026, 12, 31)>>,
           <<NaiveDate(987, 6, 5), NaiveDate(987, 6, 5)>>}

\* from <= to, which the caller guarantees
DateLeq(a, b) ==
    \/ a.y < b.y
    \/ a.y = b.y /\ a.m < b.m
    \/ a.y = b.y /\ a.m = b.m /\ a.d <= b.d

\* limit: Some(40), the default page size
PageSize == 40

Pad(n, width) ==
    LET t == ToString(n)
    IN  IF Len(t) >= width THEN t
        ELSE IF width - Len(t) = 1 THEN "0" \o t
        ELSE IF width - Len(t) = 2 THEN "00" \o t
        ELSE "000" \o t

\* date.format("%Y-%m-%d").to_string()
FormatDate(date) == Pad(date.y, 4) \o "-" \o Pad(date.m, 2) \o "-" \o Pad(date.d, 2)

\* The request built at the top of the loop.
BuildRequest(exp_from, exp_to, pg) ==
    [protocol |-> "XCP", object |-> "DOMAIN", action |-> "GET_DOMAINS_BY_EXPIREDATE",
     attributes |-> [exp_from |-> FormatDate(exp_from), exp_to |-> FormatDate(exp_to),
                     limit |-> Some(PageSize), page |-> Some(pg)]]

\* Mutant: code and message taken from the wrong fields.
ApiError_Swapped(resp) ==
    [kind |-> "ApiError", code |-> resp.response_text, message |-> resp.response_code]

\* Err(OpenSrsError::ApiError { code, message })
ApiError(resp) ==
    [kind |-> "ApiError", code |-> resp.response_code, message |-> resp.response_text]

\* Mutant: the test of the remainder is inverted.
LastPage_Inverted(resp) == resp.attributes.remainder # 0

\* Mutant: the page is also the last one when it holds as many domains as
\* the response's total says.
LastPage_OrTotalReached(resp) ==
    \/ resp.attributes.remainder = 0
    \/ Len(resp.attributes.exp_domains) >= resp.attributes.total

\* if response.attributes.remainder == 0 { break; }
LastPage(resp) == resp.attributes.remainder = 0

\* Mutant: the page is put in front of the accumulator.
Extend_Prepend(acc, resp) == resp.attributes.exp_domains \o acc

\* all_domains.extend(response.attributes.exp_domains)
Extend(acc, resp) == acc \o resp.attributes.exp_domains

LogAppend(log, x) == IF Len(log) < MaxLog THEN Append(log, x) ELSE log

\* Mutant: the page index and the accumulator are kept in the client, and
\* a call that starts resets them for every call.
Call_SharedCounters(c) ==
    /\ pc[c] = "idle"
    /\ \E r \in Ranges :
          /\ DateLeq(r[1], r[2])
          /\ args' = [args EXCEPT ![c] = [exp_from |-> r[1], exp_to |-> r[2]]]
    /\ all_domains' = [d \in Calls |-> <<>>]
    /\ page' = [d \in Calls |-> 0]
    /\ pc' = [pc EXCEPT ![c] = "loop"]
    /\ UNCHANGED <<wire, body, response, result, requests, replies>>

\* The caller enters get_domains_by_expiredate.
Call(c) ==
    /\ pc[c] = "idle"
    /\ \E r \in Ranges :
          /\ DateLeq(r[1], r[2])
          /\ args' = [args EXCEPT ![c] = [exp_from |-> r[1], exp_to |-> r[2]]]
    /\ all_domains' = [all_domains EXCEPT ![c] = <<>>]
    /\ page' = [page EXCEPT ![c] = 0]
    /\ pc' = [pc EXCEPT ![c] = "loop"]
    /\ UNCHANGED <<wire, body, response, result, requests, replies>>

\* Build the request, serialize it, sign it, post it, from one of the given
\* places of the call.
SendFrom(c, places) ==
    /\ pc[c] \in places
    /\ LET request == BuildRequest(args[c].exp_from, args[c].exp_to, page[c])
           xml == serialize_request(request)
       IN  IF xml.kind # "Ok"
           THEN /\ result' = [result EXCEPT ![c] = xml]
                /\ pc' = [pc EXCEPT ![c] = "returned"]
                /\ replies' = [replies EXCEPT ![c] = LogAppend(@, [body |-> None, ret |-> xml])]
                /\ UNCHANGED <<wire, requests>>
           ELSE /\ wire' = [wire EXCEPT ![c] = Append(@, HttpPost(xml.xml))]
                /\ requests' = [requests EXCEPT ![c] = LogAppend(@, request)]
                /\ pc' = [pc EXCEPT ![c] = "awaiting"]
                /\ UNCHANGED <<result, replies>>
    /\ UNCHANGED <<args, page, all_domains, body, response>>

\* Mutant: the next request is sent without waiting for the answer.
Send_Early(c) == SendFrom(c, {"loop", "awaiting"})

\* Top of the loop up to the agent's send.
Send(c) == SendFrom(c, {"loop"})

\* .send(..)? or read_to_string()? fails: the error leaves send_request and,
\* through the `?` of the caller, the whole call.
TransportFails(c) ==
    /\ pc[c] = "awaiting"
    /\ wire[c] # <<>>
    /\ wire' = [wire EXCEPT ![c] = Tail(@)]
    /\ result' = [result EXCEPT ![c] = HttpError]
    /\ replies' = [replies EXCEPT ![c] = LogAppend(@, [body |-> None, ret |-> HttpError])]
    /\ pc' = [pc EXCEPT ![c] = "returned"]
    /\ UNCHANGED <<args, page, all_domains, body, response, requests>>

\* The transport answers the outstanding request with a body.
TransportAnswers(c, doc) ==
    /\ pc[c] = "awaiting"
    /\ wire[c] # <<>>
    /\ wire' = [wire EXCEPT ![c] = Tail(@)]
    /\ body' = [body EXCEPT ![c] = doc]
    /\ pc' = [pc EXCEPT ![c] = "received"]
    /\ UNCHANGED <<args, page, all_domains, response, result, requests, replies>>

\* let parsed_response = deserialize_response(&response_xml)?;
Deserialize(c) ==
    /\ pc[c] = "received"
    /\ LET parsed == ParsedBodies[body[c]]
       IN  /\ replies' = [replies EXCEPT ![c] =
                               LogAppend(@, [body |-> body[c], ret |-> parsed])]
           /\ IF parsed.kind # "Ok"
              THEN /\ result' = [result EXCEPT ![c] = parsed]
                   /\ pc' = [pc EXCEPT ![c] = "returned"]
                   /\ UNCHANGED response
              ELSE /\ response' = [response EXCEPT ![c] = parsed]
                   /\ pc' = [pc EXCEPT ![c] = "parsed"]
                   /\ UNCHANGED result
    /\ body' = [body EXCEPT ![c] = None]
    /\ UNCHANGED <<args, page, all_domains, wire, requests>>

\* Mutant: a failed page ends the call with what was accumulated so far.
CheckFails_Partial(c) ==
    /\ pc[c] = "parsed"
    /\ ~response[c].is_success
    /\ result' = [result EXCEPT ![c] = [kind |-> "Ok", domains |-> all_domains[c]]]
    /\ pc' = [pc EXCEPT ![c] = "returned"]
    /\ response' = [response EXCEPT ![c] = None]
    /\ UNCHANGED <<args, page, all_domains, wire, body, requests, replies>>

\* if !response.is_success { return Err(ApiError) }
CheckFails(c) ==
    /\ pc[c] = "parsed"
    /\ ~response[c].is_success
    /\ result' = [result EXCEPT ![c] = ApiError(response[c])]
    /\ pc' = [pc EXCEPT ![c] = "returned"]
    /\ response' = [response EXCEPT ![c] = None]
    /\ UNCHANGED <<args, page, all_domains, wire, body, requests, replies>>

\* extend, then break out of the loop: Ok(all_domains)
CheckLast(c) ==
    /\ pc[c] = "parsed"
    /\ response[c].is_success
    /\ LastPage(response[c])
    /\ all_domains' = [all_domains EXCEPT ![c] = Extend(@, response[c])]
    /\ result' = [result EXCEPT ![c] = [kind |-> "Ok", domains |-> all_domains'[c]]]
    /\ pc' = [pc EXCEPT ![c] = "returned"]
    /\ response' = [response EXCEPT ![c] = None]
    /\ UNCHANGED <<args, page, wire, body, requests, replies>>

\* extend, then page += 1 and around the loop
CheckMore(c) ==
    /\ pc[c] = "parsed"
    /\ response[c].is_success
    /\ ~LastPage(response[c])
    /\ page[c] < ScaledU32Max
    /\ all_domains' = [all_domains EXCEPT ![c] = Extend(@, response[c])]
    /\ page' = [page EXCEPT ![c] = @ + 1]
    /\ pc' = [pc EXCEPT ![c] = "loop"]
    /\ response' = [response EXCEPT ![c] = None]
    /\ UNCHANGED <<args, wire, body, result, requests, replies>>

\* page += 1 at u32::MAX without overflow checks (release profile): wraps
CheckMoreWraps(c) ==
    /\ pc[c] = "parsed"
    /\ response[c].is_success
    /\ ~LastPage(response[c])
    /\ page[c] = ScaledU32Max
    /\ all_domains' = [all_domains EXCEPT ![c] = Extend(@, response[c])]
    /\ page' = [page EXCEPT ![c] = 0]
    /\ pc' = [pc EXCEPT ![c] = "loop"]
    /\ response' = [response EXCEPT ![c] = None]
    /\ UNCHANGED <<args, wire, body, result, requests, replies>>

\* page += 1 at u32::MAX with overflow checks (dev profile): panics
CheckMorePanics(c) ==
    /\ pc[c] = "parsed"
    /\ response[c].is_success
    /\ ~LastPage(response[c])
    /\ page[c] = ScaledU32Max
    /\ all_domains' = [all_domains EXCEPT ![c] = Extend(@, response[c])]
    /\ pc' = [pc EXCEPT ![c] = "panicked"]
    /\ response' = [response EXCEPT ![c] = None]
    /\ UNCHANGED <<args, page, wire, body, result, requests, replies>>

-----------------------------------------------------------------------------
(* The transport's answers                                                 *)

\* The server holds at most MaxDomains records for the query.
Deliverable(c, doc) == Len(all_domains[c]) + WireRecords(doc) <= MaxDomains

Answer(c) ==
    \E doc \in EngineDocs : Deliverable(c, doc) /\ TransportAnswers(c, doc)

-----------------------------------------------------------------------------
(* Specifications                                                          *)

EngineIdle ==
    /\ pc = [c \in Calls |-> "idle"]
    /\ args = [c \in Calls |-> None]
    /\ page = [c \in Calls |-> 0]
    /\ all_domains = [c \in Calls |-> <<>>]
    /\ wire = [c \in Calls |-> <<>>]
    /\ body = [c \in Calls |-> None]
    /\ response = [c \in Calls |-> None]
    /\ result = [c \in Calls |-> None]
    /\ requests = [c \in Calls |-> <<>>]
    /\ replies = [c \in Calls |-> <<>>]

XmlIdle == xml_in = <<>> /\ xml_pos = 0 /\ scan = ScanInit /\ xml_out = None

SerIdle == ser_req = None /\ ser_out = None

SigIdle == sig_xml = <<>> /\ sig_key = <<>> /\ sig_out = None

LenIdle == len_in = <<>> /\ len_out = None

PureIdle == SigIdle /\ LenIdle

\* ---- one call on the client ----
MainCalls == {"a"}

Init == EngineIdle /\ XmlIdle /\ SerIdle /\ PureIdle

Next ==
    \/ \E c \in MainCalls : Call(c) /\ UNCHANGED <<xmlVars, serVars, pureVars>>
    \/ \E c \in MainCalls : Send(c) /\ UNCHANGED <<xmlVars, serVars, pureVars>>
    \/ \E c \in MainCalls : TransportFails(c) /\ UNCHANGED <<xmlVars, serVars, pureVars>>
    \/ \E c \in MainCalls : Answer(c) /\ UNCHANGED <<xmlVars, serVars, pureVars>>
    \/ \E c \in MainCalls : Deserialize(c) /\ UNCHANGED <<xmlVars, serVars, pureVars>>
    \/ \E c \in MainCalls : CheckFails(c) /\ UNCHANGED <<xmlVars, serVars, pureVars>>
    \/ \E c \in MainCalls : CheckLast(c) /\ UNCHANGED <<xmlVars, serVars, pureVars>>
    \/ \E c \in MainCalls : CheckMore(c) /\ UNCHANGED <<xmlVars, serVars, pureVars>>
    \/ \E c \in MainCalls : CheckMoreWraps(c) /\ UNCHANGED <<xmlVars, serVars, pureVars>>
    \/ \E c \in MainCalls : CheckMorePanics(c) /\ UNCHANGED <<xmlVars, serVars, pureVars>>

Spec == Init /\ [][Next]_vars

\* The steps of one call.  The call is one synchronous thread that runs on
\* while it can, and every transport call returns (with an answer or an
\* error): each call's steps are weakly fair.
CallStep(c) ==
    /\ \/ Call(c) \/ Send(c) \/ TransportFails(c) \/ Answer(c) \/ Deserialize(c)
       \/ CheckFails(c) \/ CheckLast(c) \/ CheckMore(c) \/ CheckMoreWraps(c)
       \/ CheckMorePanics(c)
    /\ UNCHANGED <<xmlVars, serVars, pureVars>>

FairSpec == Spec /\ \A c \in MainCalls : WF_vars(CallStep(c))

\* ---- two calls on the same client, their steps interleaved ----

\* What the server answers the two calls with.  The query of call "a" has
\* domains (a page with more to come, a last page); the query of call "b"
\* has none (empty pages, with more to come or last).  Either may fail.
TwoDocs(c) ==
    (IF c = "a"
     THEN {Ok200(<<"x">>, <<DomainA>>, <<"1">>), Ok200(<<"x">>, <<DomainB, DomainA>>, <<"0">>)}
     ELSE {Ok200(<<>>, <<>>, <<"1">>), Ok200(<<>>, <<>>, <<"0">>)})
    \cup {ResponseDoc(Fields(<<"0">>, <<"4", "1", "5">>, <<"n", "o">>, <<>>, <<>>,
                             <<"0">>, <<"0">>, <<"0">>))}

TwoNext ==
    \/ \E c \in Calls : Call(c) /\ UNCHANGED <<xmlVars, serVars, pureVars>>
    \/ \E c \in Calls : Send(c) /\ UNCHANGED <<xmlVars, serVars, pureVars>>
    \/ \E c \in Calls : TransportFails(c) /\ UNCHANGED <<xmlVars, serVars, pureVars>>
    \/ \E c \in Calls : \E doc \in TwoDocs(c) :
            /\ Deliverable(c, doc) /\ TransportAnswers(c, doc)
            /\ UNCHANGED <<xmlVars, serVars, pureVars>>
    \/ \E c \in Calls : Deserialize(c) /\ UNCHANGED <<xmlVars, serVars, pureVars>>
    \/ \E c \in Calls : CheckFails(c) /\ UNCHANGED <<xmlVars, serVars, pureVars>>
    \/ \E c \in Calls : CheckLast(c) /\ UNCHANGED <<xmlVars, serVars, pureVars>>
    \/ \E c \in Calls : CheckMore(c) /\ UNCHANGED <<xmlVars, serVars, pureVars>>
    \/ \E c \in Calls : CheckMoreWraps(c) /\ UNCHANGED <<xmlVars, serVars, pureVars>>
    \/ \E c \in Calls : CheckMorePanics(c) /\ UNCHANGED <<xmlVars, serVars, pureVars>>

TwoSpec == Init /\ [][TwoNext]_vars

\* Two calls, each against its own server of the pair.
PairNext ==
    \/ \E c \in Calls : Call(c) /\ UNCHANGED <<xmlVars, serVars, pureVars>>
    \/ \E c \in Calls : Send(c) /\ UNCHANGED <<xmlVars, serVars, pureVars>>
    \/ \E c \in Calls : TransportFails(c) /\ UNCHANGED <<xmlVars, serVars, pureVars>>
    \/ \E c \in Calls : \E doc \in PairDocs(c) :
            /\ Deliverable(c, doc) /\ TransportAnswers(c, doc)
            /\ UNCHANGED <<xmlVars, serVars, pureVars>>
    \/ \E c \in Calls : Deserialize(c) /\ UNCHANGED <<xmlVars, serVars, pureVars>>
    \/ \E c \in Calls : CheckFails(c) /\ UNCHANGED <<xmlVars, serVars, pureVars>>
    \/ \E c \in Calls : CheckLast(c) /\ UNCHANGED <<xmlVars, serVars, pureVars>>
    \/ \E c \in Calls : CheckMore(c) /\ UNCHANGED <<xmlVars, serVars, pureVars>>
    \/ \E c \in Calls : CheckMoreWraps(c) /\ UNCHANGED <<xmlVars, serVars, pureVars>>
    \/ \E c \in Calls : CheckMorePanics(c) /\ UNCHANGED <<xmlVars, serVars, pureVars>>

PairSpec == Init /\ [][PairNext]_vars

-----------------------------------------------------------------------------
(* One run of deserialize_response, event by event                         *)

\* Markup that is not well-formed, as the reader and its iterators report
\* it: the reader cannot go on (Err), an attribute is malformed (an Err item
\* of e.attributes()), or a text node holds a bad entity (unescape() is Err).
ErrAt(doc, p) == SubSeq(doc, 1, p - 1) \o <<ErrEv>>
BadTextAt(doc, p) == [doc EXCEPT ![p] = BadTextEv]
BadAttrAt(doc, p) == [doc EXCEPT ![p] = StartEv(doc[p].name, <<AttrErr>>)]

\* The responses that get broken: successes whose domains are collected.
BreakableDocs ==
    {Ok200(<<"x">>, ds, <<"1">>) : ds \in SeqsUpTo(WireDomains, MaxRecords)}

BrokenDocs ==
    UNION {{ErrAt(doc, p) : p \in 1..(Len(doc) + 1)} : doc \in BreakableDocs}
    \cup UNION {{BadTextAt(doc, p) : p \in {q \in 1..Len(doc) : doc[q].type = "Text"}} :
                    doc \in BreakableDocs}
    \cup UNION {{BadAttrAt(doc, p) :
                    p \in {q \in 1..Len(doc) : doc[q].type = "Start" /\ doc[q].name = "item"}} :
                    doc \in BreakableDocs}

\* A response with one more item, of a key the scanner does not know, put
\* after the p-th event.
UnknownKeys == {"zzz"}
ExtraTexts == {<<>>, <<"1">>}

InsertAt(doc, p, evs) == SubSeq(doc, 1, p) \o evs \o SubSeq(doc, p + 1, Len(doc))

\* The positions inside the data block: from its start-tag up to its end-tag.
InDataBlock(doc) ==
    LET first == CHOOSE i \in 1..Len(doc) : doc[i] = StartEv("data_block", <<>>)
        last == CHOOSE i \in 1..Len(doc) : doc[i] = EndEv("data_block")
    IN  first..(last - 1)

ExtraDocs ==
    UNION {{InsertAt(doc, p, TextItem(k, t)) :
                p \in InDataBlock(doc), k \in UnknownKeys, t \in ExtraTexts} :
              doc \in BreakableDocs}

\* Responses whose records lack fields.  A record is given by the keys of
\* its items, in order, and the texts they take from a domain (an empty
\* text: an item without text).
RECURSIVE FieldItems(_, _)
FieldItems(keys, d) ==
    IF keys = <<>> THEN <<>>
    ELSE TextItem(Head(keys), d[Head(keys)]) \o FieldItems(Tail(keys), d)

RECURSIVE PartialRecordsFrom(_, _)
PartialRecordsFrom(i, recs) ==
    IF recs = <<>> THEN <<>>
    ELSE <<Item(ToString(i)), StartEv("dt_assoc", <<>>)>>
         \o FieldItems(Head(recs).keys, Head(recs).domain)
         \o <<EndEv("dt_assoc"), ItemEnd>>
         \o PartialRecordsFrom(i + 1, Tail(recs))

RecordShapes ==
    {<<"name", "expiredate", "f_auto_renew", "f_let_expire">>,
     <<"name", "expiredate", "f_auto_renew">>,
     <<"expiredate", "f_auto_renew", "f_let_expire">>,
     <<"name", "f_let_expire">>,
     <<"f_let_expire">>}

PartialRecords ==
    {[keys |-> k, domain |-> d] : k \in RecordShapes, d \in WireDomains}
    \cup {[keys |-> <<"name", "expiredate", "f_auto_renew", "f_let_expire">>,
           domain |-> [DomainA EXCEPT !.f_let_expire = <<>>]]}

PartialDocs ==
    {ResponseAround(Fields(<<"1">>, <<"2", "0", "0">>, <<"o", "k">>, <<"x">>, <<>>,
                           <<"0">>, <<"2">>, <<"0">>),
                    PartialRecordsFrom(0, recs)) :
        recs \in SeqsUpTo(PartialRecords, MaxRecords)}

\* A response whose input ends early: the reader reports Eof after any
\* number of its events.
TruncatedDocs ==
    LET doc == Ok200(<<"x">>, <<DomainB, DomainA>>, <<"1">>)
    IN  {SubSeq(doc, 1, n) : n \in 0..(Len(doc) - 1)}

\* Responses whose page and total items carry text that is or is not an
\* unsigned integer of 32 bits.
NumberTexts ==
    {<<"7">>, <<"+", "5">>, <<"x">>, <<"-", "1">>, <<"1", "2", "a">>, <<"1", ".", "5">>,
     <<"4", "2", "9", "4", "9", "6", "7", "2", "9", "6">>}

NumericFields ==
    {Fields(<<"1">>, <<"2", "0", "0">>, <<"o", "k">>, <<"x">>, <<DomainA>>, p, t, <<"1">>) :
        p \in NumberTexts, t \in NumberTexts}

NumericDocs == {ResponseDoc(f) : f \in NumericFields}

\* Responses with one is_success item, or with a second one (with or without
\* text) after the response_text item.  A text with blanks around it is what
\* unescape() gives for blanks written as character references.
SuccessTexts ==
    {<<"1">>, <<"0">>, <<"0", "1">>, <<"1", "1">>, <<" ", "1", " ">>,
     <<"t", "r", "u", "e">>, <<"T", "R", "U", "E">>, <<"T", "r", "u", "e">>,
     <<"t", "R", "u", "E">>, <<"f", "a", "l", "s", "e">>, <<"y", "e", "s">>, <<"t">>}

SuccessPairs == SuccessTexts \X ({None} \cup {Some(t) : t \in SuccessTexts \cup {<<>>}})

SuccessDoc(pair) ==
    LET doc == ResponseDoc(Fields(pair[1], <<"2", "0", "0">>, <<"o", "k">>, <<"x">>,
                                  <<DomainA>>, <<"0">>, <<"2">>, <<"0">>))
        p == (CHOOSE i \in 1..Len(doc) : doc[i] = Item("attributes")) - 1
    IN  IF pair[2] = None THEN doc
        ELSE InsertAt(doc, p, TextItem("is_success", pair[2].value))

SuccessDocs == {SuccessDoc(pair) : pair \in SuccessPairs}

\* Responses with text outside the data block: a keyed item with text, or
\* bare text, put before the data_block start-tag or after its end-tag, in a
\* response with a complete record and in one whose record is in progress
\* when the data block ends.
OutsideKeys ==
    {"is_success", "response_code", "response_text", "page", "total", "remainder",
     "name", "f_let_expire", "exp_domains"}

OutsideBases ==
    {Ok200(<<"x">>, <<DomainA>>, <<"1">>),
     ResponseAround(Fields(<<"1">>, <<"2", "0", "0">>, <<"o", "k">>, <<"x">>, <<>>,
                           <<"0">>, <<"2">>, <<"1">>),
                    PartialRecordsFrom(0, <<[keys |-> <<"name", "expiredate">>,
                                             domain |-> DomainB]>>))}

OutsideDataBlock(doc) == (0..Len(doc)) \ InDataBlock(doc)

OutsideDocs ==
    UNION {{InsertAt(doc, p, evs) :
                p \in OutsideDataBlock(doc),
                evs \in {TextItem(k, <<"9">>) : k \in OutsideKeys} \cup {<<TextEv(<<"9">>)>>}} :
              doc \in OutsideBases}

\* Responses with text that does not follow the start-tag of a keyed item:
\* text in an item without a key attribute, in an item with another
\* attribute only, in an element of another name, or bare, put after each
\* event of the data block.
UnkeyedTexts ==
    {<<StartEv("item", <<>>), TextEv(<<"9">>), ItemEnd>>,
     <<StartEv("item", <<AttrOk("id", "page")>>), TextEv(<<"9">>), ItemEnd>>,
     <<StartEv("b", <<>>), TextEv(<<"9">>), EndEv("b")>>,
     <<TextEv(<<"9">>)>>}

StickyDocs ==
    LET doc == Ok200(<<"x">>, <<DomainA>>, <<"1">>)
    IN  {InsertAt(doc, p, evs) : p \in InDataBlock(doc), evs \in UnkeyedTexts}

XmlDocs ==
    GoodDocs \cup BrokenDocs \cup ExtraDocs \cup PartialDocs \cup TruncatedDocs
    \cup NumericDocs \cup SuccessDocs \cup OutsideDocs \cup StickyDocs

XmlInit ==
    /\ xml_in \in XmlDocs
    /\ xml_pos = 0
    /\ scan = ScanInit
    /\ xml_out = None
    /\ EngineIdle
    /\ SerIdle
    /\ PureIdle

\* Ok(Event::Start | Event::Text | Event::End | other): one turn of the loop
ReadEvent ==
    /\ xml_out = None
    /\ xml_pos < Len(xml_in)
    /\ xml_in[xml_pos + 1].type # "Err"
    /\ scan' = ScanEvent(scan, xml_in[xml_pos + 1])
    /\ xml_pos' = xml_pos + 1
    /\ UNCHANGED <<xml_in, xml_out, engineVars, serVars, pureVars>>

\* Err(e) => return Err(OpenSrsError::XmlDeserialize(..))
ReadErr ==
    /\ xml_out = None
    /\ xml_pos < Len(xml_in)
    /\ xml_in[xml_pos + 1].type = "Err"
    /\ xml_out' = XmlDeserializeError
    /\ xml_pos' = xml_pos + 1
    /\ UNCHANGED <<xml_in, scan, engineVars, serVars, pureVars>>

\* Ok(Event::Eof) => break; Ok(GetDomainsByExpireDateResponse { .. })
ReadEof ==
    /\ xml_out = None
    /\ xml_pos = Len(xml_in)
    /\ xml_out' = ResponseOf(scan)
    /\ UNCHANGED <<xml_in, xml_pos, scan, engineVars, serVars, pureVars>>

XmlNext == ReadEvent \/ ReadErr \/ ReadEof

XmlSpec == XmlInit /\ [][XmlNext]_vars

-----------------------------------------------------------------------------
(* One run of serialize_request                                            *)

SerRequests ==
    [protocol : {"XCP", "P"}, object : {"DOMAIN"},
     action : {"GET_DOMAINS_BY_EXPIREDATE", "A"},
     attributes : [exp_from : {FormatDate(d) : d \in Dates} \cup {""},
                   exp_to : {FormatDate(d) : d \in Dates} \cup {""},
                   limit : {None, Some(0), Some(PageSize)},
                   page : {None, Some(0), Some(ScaledU32Max)}]]

SerInit ==
    /\ ser_req \in SerRequests
    /\ ser_out = None
    /\ EngineIdle
    /\ XmlIdle
    /\ PureIdle

Serialize ==
    /\ ser_out = None
    /\ ser_out' = serialize_request(ser_req)
    /\ UNCHANGED <<ser_req, engineVars, xmlVars, pureVars>>

SerNext == Serialize

SerSpec == SerInit /\ [][SerNext]_vars

-----------------------------------------------------------------------------
(* One run of generate_signature                                           *)

\* longest body and secret signed
MaxSigned == 2

SigBodies == SeqsUpTo({"<", "a", "0"}, MaxSigned)
SigKeys == SeqsUpTo({"k", "a"}, MaxSigned)

SigInit ==
    /\ sig_xml \in SigBodies
    /\ sig_key \in SigKeys
    /\ sig_out = None
    /\ LenIdle
    /\ EngineIdle
    /\ XmlIdle
    /\ SerIdle

Sign ==
    /\ sig_out = None
    /\ sig_out' = generate_signature(sig_xml, sig_key)
    /\ UNCHANGED <<sig_xml, sig_key, lenVars, engineVars, xmlVars, serVars>>

SigNext == Sign

SigSpec == SigInit /\ [][SigNext]_vars

-----------------------------------------------------------------------------
(* One run of calculate_content_length                                     *)

\* longest document measured, apart from the one of the unit test
MaxChars == 3

\* 't', U+00E9, U+6D4B, U+8BD5, U+1F600
Chars == {116, 233, 27979, 35797, 128512}

\* "test " and two three-byte characters (test_content_length_is_bytes)
TestDocument == <<116, 101, 115, 116, 32, 27979, 35797>>

LenInit ==
    /\ len_in \in SeqsUpTo(Chars, MaxChars) \cup {TestDocument}
    /\ len_out = None
    /\ SigIdle
    /\ EngineIdle
    /\ XmlIdle
    /\ SerIdle

Measure ==
    /\ len_out = None
    /\ len_out' = Some(calculate_content_length(len_in))
    /\ UNCHANGED <<len_in, sigVars, engineVars, xmlVars, serVars>>

LenNext == Measure

LenSpec == LenInit /\ [][LenNext]_vars

-----------------------------------------------------------------------------
(* What the claims speak of                                                *)

\* The history of call c is complete: no request or reply is missing from it.
Unsaturated(c) == Len(requests[c]) < MaxLog

Returned(c) == pc[c] = "returned"

\* send_request returned a successful response with a nonzero remainder
IsMore(r) == r.ret.kind = "Ok" /\ r.ret.is_success /\ r.ret.attributes.remainder # 0
\* ... a successful response with remainder 0
IsLast(r) == r.ret.kind = "Ok" /\ r.ret.is_success /\ r.ret.attributes.remainder = 0
\* ... a response with is_success false
IsApiFailure(r) == r.ret.kind = "Ok" /\ ~r.ret.is_success

RECURSIVE ConcatDomains(_)
ConcatDomains(rs) ==
    IF rs = <<>> THEN <<>>
    ELSE Head(rs).ret.attributes.exp_domains \o ConcatDomains(Tail(rs))

LastReply(c) == replies[c][Len(replies[c])]

\* Every reply before the last is a successful page with a nonzero remainder.
EarlierAllMore(c) == \A i \in 1..(Len(replies[c]) - 1) : IsMore(replies[c][i])

\* The engine has acted on the last reply (it is not still about to check it).
Acted(c) == replies[c] # <<>> /\ pc[c] # "parsed"

\* C1: when pages 0..N-1 are answered by successful responses with a nonzero
\* remainder and page N by a successful response with remainder 0, the call
\* has returned Ok with the domains of pages 0..N concatenated in fetch order
\* (each page's order kept) and has issued exactly N+1 requests.
C1_AllPagesInOrder ==
    \A c \in Calls :
        (Unsaturated(c) /\ Acted(c) /\ EarlierAllMore(c) /\ IsLast(LastReply(c)))
        => /\ Returned(c)
           /\ result[c] = [kind |-> "Ok", domains |-> ConcatDomains(replies[c])]
           /\ Len(requests[c]) = Len(replies[c])
           /\ wire[c] = <<>>

\* Two pages, both with domains, have been concatenated.
C1_Witness ==
    \E c \in Calls :
        /\ Returned(c) /\ Unsaturated(c) /\ result[c].kind = "Ok"
        /\ Len(replies[c]) = 2
        /\ replies[c][1].ret.attributes.exp_domains = <<DomainA>>
        /\ replies[c][2].ret.attributes.exp_domains = <<DomainB, DomainA>>

\* C2: when the k-th response has is_success false (all earlier ones being
\* successful with a nonzero remainder), the call has returned ApiError with
\* that response's code and text and has issued exactly k requests: the
\* failing request is not sent again and none follows it.
C2_ApiErrorShortCircuit ==
    \A c \in Calls :
        (Unsaturated(c) /\ Acted(c) /\ EarlierAllMore(c) /\ IsApiFailure(LastReply(c)))
        => /\ Returned(c)
           /\ result[c] = [kind |-> "ApiError",
                           code |-> LastReply(c).ret.response_code,
                           message |-> LastReply(c).ret.response_text]
           /\ Len(requests[c]) = Len(replies[c])
           /\ wire[c] = <<>>

\* The second response failed, after a page with domains.
C2_Witness ==
    \E c \in Calls :
        /\ Returned(c) /\ result[c].kind = "ApiError"
        /\ Len(replies[c]) = 2 /\ Len(requests[c]) = 2
        /\ result[c].code = <<"4", "1", "5">> /\ result[c].message = <<"n", "o">>

\* C3: no partial result.  A call that returned Ok received only successful
\* responses, the last with remainder 0, and returns all their domains; a
\* call in which a step failed returned that step's error, which carries no
\* domains, whatever was accumulated before.
C3_NoPartialResult ==
    \A c \in Calls :
        (Unsaturated(c) /\ replies[c] # <<>> /\ result[c] # None)
        => /\ EarlierAllMore(c)
           /\ IF result[c].kind = "Ok"
              THEN /\ IsLast(LastReply(c))
                   /\ result[c].domains = ConcatDomains(replies[c])
              ELSE /\ "domains" \notin DOMAIN result[c]
                   /\ IF LastReply(c).ret.kind = "Ok"
                      THEN /\ IsApiFailure(LastReply(c))
                           /\ result[c].kind = "ApiError"
                      ELSE result[c] = LastReply(c).ret

\* A later page failed after domains had been accumulated.
C3_Witness ==
    \E c \in Calls :
        /\ Returned(c) /\ result[c].kind \in {"HttpError", "XmlDeserialize", "ApiError"}
        /\ all_domains[c] # <<>>

\* The response the call has just received reports remainder 0 or failure.
FinalAnswerRead(c) ==
    /\ pc[c] = "parsed"
    /\ ~response[c].is_success \/ response[c].attributes.remainder = 0

\* C4: the loop terminates once the server reports remainder 0 (or failure):
\* from the moment such a response has been read the call eventually
\* returns, and a call that has returned issues no further request.
C4_TerminatesOnRemainderZero ==
    /\ \A c \in MainCalls : FinalAnswerRead(c) ~> Returned(c)
    /\ [][\A c \in MainCalls :
            Returned(c) => (Returned(c)' /\ wire'[c] = <<>> /\ requests'[c] = requests[c])]_vars

\* A second page reported remainder 0 and the call returned after it.
C4_Witness ==
    \E c \in MainCalls :
        /\ Returned(c) /\ result[c].kind = "Ok" /\ Len(replies[c]) = 2
        /\ page[c] = 1

\* C5: the call is guarded against a server that reports more pages for
\* ever: whatever the answers, the number of requests is bounded and the
\* call eventually ends (here: returns, or is ended by the overflow check of
\* a build that has one).
C5_CallEventuallyEnds ==
    \A c \in MainCalls : <>(pc[c] \in {"returned", "panicked"})

\* The responses of the vendor's shape: the exp_domains item holds its
\* records and no text of its own.
VendorFields == {f \in GoodFields : f.is_success = <<"1">> /\ f.exp_text = <<>>}

\* C6: deserialize_response applied to a well-formed response of the vendor's
\* shape with n domain records returns exactly those n records, field values
\* and order kept.
C6_VendorRecordsReturned ==
    \A f \in VendorFields :
        (xml_in = ResponseDoc(f) /\ xml_out # None)
        => /\ xml_out.kind = "Ok"
           /\ xml_out.attributes.exp_domains = f.domains

\* The markup is not well-formed: the reader fails on it, or one of its
\* attributes or text nodes is malformed.
IllFormed(doc) ==
    \E p \in 1..Len(doc) :
        \/ doc[p].type = "Err"
        \/ doc[p].type = "Text" /\ ~doc[p].ok
        \/ doc[p].type = "Start" /\ \E i \in 1..Len(doc[p].attrs) : ~doc[p].attrs[i].ok

\* C7: markup that is not well-formed yields the XmlDeserialize error and
\* never a response value, wherever in the document the fault is.
C7_IllFormedIsError ==
    (xml_out # None /\ IllFormed(xml_in)) => xml_out = XmlDeserializeError

\* The positions of the item start-tags with key k in a document.
ItemsOf(xml, k) == {i \in 1..Len(xml) : xml[i] = ItemOpen(k)}

ItemAt(xml, k) == CHOOSE i \in ItemsOf(xml, k) : TRUE

\* <item key="K">V</item> stands at position i.
RendersAt(xml, i, k, v) ==
    /\ xml[i] = ItemOpen(k)
    /\ IF v = "" THEN xml[i + 1] = Close("item")
       ELSE xml[i + 1] = v /\ xml[i + 2] = Close("item")

ItemKeys ==
    {"protocol", "object", "action", "attributes", "exp_from", "exp_to", "limit", "page"}

CountOf(xml, toks) == Cardinality({i \in 1..Len(xml) : xml[i] \in toks})

\* The optional item with key k is rendered after position p when the field
\* is set, and there is no item with that key when it is not.
OptionalRendered(xml, k, opt, p) ==
    IF opt = None THEN ItemsOf(xml, k) = {}
    ELSE /\ Cardinality(ItemsOf(xml, k)) = 1
         /\ ItemAt(xml, k) > p
         /\ RendersAt(xml, ItemAt(xml, k), k, ToString(opt.value))

\* C8: serialize_request renders protocol, object, action and, inside the
\* attributes group, exp_from, exp_to, limit, page as <item key="K">V</item>
\* in that order; the limit item is there iff limit is set and the page item
\* iff page is set, an unset field giving no item at all.
C8_ItemsInOrder ==
    ser_out # None =>
        LET xml == ser_out.xml
            a == ser_req.attributes
            set == {k \in {"limit", "page"} : a[k] # None}
            group == ItemAt(xml, "attributes")
            groupEnd == CHOOSE i \in 1..Len(xml) :
                            /\ xml[i] = Close("dt_assoc")
                            /\ \A j \in 1..(i - 1) : xml[j] # Close("dt_assoc")
        IN  /\ ser_out.kind = "Ok"
            /\ \A k \in ItemKeys \ {"limit", "page"} : Cardinality(ItemsOf(xml, k)) = 1
            /\ RendersAt(xml, ItemAt(xml, "protocol"), "protocol", ser_req.protocol)
            /\ RendersAt(xml, ItemAt(xml, "object"), "object", ser_req.object)
            /\ RendersAt(xml, ItemAt(xml, "action"), "action", ser_req.action)
            /\ RendersAt(xml, ItemAt(xml, "exp_from"), "exp_from", a.exp_from)
            /\ RendersAt(xml, ItemAt(xml, "exp_to"), "exp_to", a.exp_to)
            /\ ItemAt(xml, "protocol") < ItemAt(xml, "object")
            /\ ItemAt(xml, "object") < ItemAt(xml, "action")
            /\ ItemAt(xml, "action") < group
            /\ xml[group + 1] = Open("dt_assoc")
            /\ group + 1 < ItemAt(xml, "exp_from")
            /\ ItemAt(xml, "exp_from") < ItemAt(xml, "exp_to")
            /\ OptionalRendered(xml, "limit", a.limit, ItemAt(xml, "exp_to"))
            /\ OptionalRendered(xml, "page", a.page, ItemAt(xml, "exp_to"))
            /\ set = {"limit", "page"} => ItemAt(xml, "limit") < ItemAt(xml, "page")
            /\ \A k \in {"exp_from", "exp_to"} \cup set : ItemAt(xml, k) < groupEnd
            /\ xml[groupEnd + 1] = Close("item")
            /\ CountOf(xml, {ItemOpen(k) : k \in ItemKeys}) = 6 + Cardinality(set)
            /\ CountOf(xml, {Close("item")}) = 6 + Cardinality(set)

\* A request with a page and no limit has been serialized.
C8_Witness ==
    /\ ser_out # None
    /\ ser_req.attributes.limit = None
    /\ ser_req.attributes.page = Some(ScaledU32Max)
    /\ ItemsOf(ser_out.xml, "page") # {}

\* C9: within one call the page requests are strictly sequential.  At most
\* one request is outstanding, and while it is no response is held; a
\* request is sent only when nothing is outstanding and every earlier
\* request's response has been received and deserialized into a successful
\* page, and the one sent is the request for the call's current page.
C9_StrictlySequential ==
    /\ [](\A c \in MainCalls :
            /\ Len(wire[c]) <= 1
            /\ wire[c] # <<>> => (body[c] = None /\ response[c] = None))
    /\ [][\A c \in MainCalls :
            Len(wire'[c]) > Len(wire[c])
            => /\ wire[c] = <<>> /\ body[c] = None /\ response[c] = None
               /\ wire'[c] = <<HttpPost(serialize_request(
                                  BuildRequest(args[c].exp_from, args[c].exp_to,
                                               page[c])).xml)>>
               /\ Unsaturated(c)
                  => /\ Len(replies[c]) = Len(requests[c])
                     /\ \A i \in 1..Len(replies[c]) : IsMore(replies[c][i])
                     /\ page[c] = Len(requests[c])]_vars

\* The request for the second page is outstanding, the first page having
\* been received and deserialized.
C9_Witness ==
    \E c \in MainCalls :
        /\ Len(wire[c]) = 1 /\ page[c] = 1
        /\ Len(requests[c]) = 2 /\ Len(replies[c]) = 1

\* The text of the remainder item of a body (empty when there is none).
RemainderTextOf(doc) ==
    LET at == {i \in 1..(Len(doc) - 1) :
                  doc[i] = Item("remainder") /\ doc[i + 1].type = "Text"}
    IN  IF at = {} THEN <<>> ELSE doc[(CHOOSE i \in at : TRUE) + 1].text

\* The text is an unsigned integer other than 0, of any magnitude.
NonzeroUnsigned(text) ==
    /\ text # <<>>
    /\ \A i \in 1..Len(text) : text[i] \in Digit
    /\ \E i \in 1..Len(text) : text[i] # "0"

\* C10: every nonzero remainder means more pages.  Once the call has acted on
\* a successful response whose remainder text is a nonzero unsigned integer,
\* it has not returned: it goes on to the next page.
C10_NonzeroRemainderContinues ==
    \A c \in MainCalls :
        (/\ Unsaturated(c) /\ Acted(c)
         /\ LastReply(c).ret.kind = "Ok" /\ LastReply(c).ret.is_success
         /\ NonzeroUnsigned(RemainderTextOf(LastReply(c).body)))
        => ~Returned(c)

\* The place of the extra item of a document, and the document without it.
ExtraAt(doc) ==
    {i \in 1..Len(doc) : doc[i].type = "Start" /\ doc[i] \in {Item(k) : k \in UnknownKeys}}

ExtraEnd(doc, i) == IF doc[i + 1] = ItemEnd THEN i + 1 ELSE i + 2

WithoutExtra(doc) ==
    LET i == CHOOSE j \in ExtraAt(doc) : TRUE
    IN  SubSeq(doc, 1, i - 1) \o SubSeq(doc, ExtraEnd(doc, i) + 1, Len(doc))

\* The start-tag of an item that carries a key.
KeyedItem(ev) ==
    /\ ev.type = "Start" /\ ev.name = "item"
    /\ \E a \in 1..Len(ev.attrs) : ev.attrs[a].ok /\ ev.attrs[a].key = "key"

\* No text node is read under the extra item's key: the first text node after
\* the extra item, if there is one, comes after the start-tag of a keyed item.
ExtraBetweenItems(doc) ==
    LET e == ExtraEnd(doc, CHOOSE j \in ExtraAt(doc) : TRUE)
        texts == {q \in (e + 1)..Len(doc) : doc[q].type = "Text"}
    IN  \A q \in texts :
            (\A r \in texts : q <= r) => \E r \in (e + 1)..(q - 1) : KeyedItem(doc[r])

\* C11 as stated: an extra item of an unknown key, with any text, at any
\* position inside the data block of a well-formed response leaves the value
\* deserialize_response returns unchanged (and so never makes it an error).
C11_ExtraItemAnywhereIgnored ==
    (xml_out # None /\ xml_in \in ExtraDocs)
    => xml_out = deserialize_response(WithoutExtra(xml_in))

\* C11 amended: the same for an extra item that does not stand between a
\* start-tag and the text read under it; at any position the extra item
\* never turns the parse into an error.
C11_ExtraItemBetweenItemsIgnored ==
    (xml_out # None /\ xml_in \in ExtraDocs)
    => /\ xml_out.kind = "Ok"
       /\ ExtraBetweenItems(xml_in) => xml_out = deserialize_response(WithoutExtra(xml_in))

\* An extra item with text, put between the records of a response with two
\* domains, has been read.
C11_Witness ==
    /\ xml_out # None /\ xml_in \in ExtraDocs /\ ExtraBetweenItems(xml_in)
    /\ xml_in[ExtraEnd(xml_in, CHOOSE j \in ExtraAt(xml_in) : TRUE) - 1].type = "Text"
    /\ xml_out.kind = "Ok" /\ Len(xml_out.attributes.exp_domains) = 2

\* C12: generate_signature(body, secret) is lowerhex(MD5(lowerhex(MD5(body ++
\* secret)) ++ secret)): the second round hashes the hex text of the first
\* digest followed by the secret; the result is the hex text of a digest, 32
\* characters, for every body and secret, the empty ones included.
C12_SignatureIsDoubleMd5Hex ==
    sig_out # None =>
        LET h1 == HexEncode(Md5(sig_xml \o sig_key))
        IN  /\ sig_out = HexEncode(Md5(<<h1>> \o sig_key))
            /\ HexLen(h1) = 32
            /\ DOMAIN sig_out = {"hex"} /\ DOMAIN sig_out.hex = {"md5"}
            /\ HexLen(sig_out) = 32

\* An empty body has been signed with an empty secret.
C12_Witness ==
    /\ sig_out # None /\ sig_xml = <<>> /\ sig_key = <<>>
    /\ sig_out.hex.md5 = <<HexEncode(Md5(<<>>))>>

\* The numbers of characters of a document that take n bytes in UTF-8.
CountWidth(xml, n) == Cardinality({i \in 1..Len(xml) : Len(Utf8(xml[i])) = n})

\* C14: calculate_content_length returns the number of UTF-8 bytes, not of
\* characters: a + 3*b for a one-byte and b three-byte characters, and 11
\* for "test " followed by two three-byte characters.
C14_ContentLengthIsBytes ==
    len_out # None =>
        /\ (\A i \in 1..Len(len_in) : len_in[i] < 128 \/ len_in[i] \in 2048..65535)
           => len_out.value = CountWidth(len_in, 1) + 3 * CountWidth(len_in, 3)
        /\ len_in = TestDocument => len_out.value = 11

\* The document of the unit test has been measured.
C14_Witness ==
    len_out # None /\ len_in = TestDocument /\ Len(len_in) = 7

\* What a call that runs alone makes of the answers rs that send_request
\* gives it, from an empty accumulator and page 0: its accumulator and page
\* index, and its result once an answer ends it.
RECURSIVE RunAlone(_, _, _)
RunAlone(rs, acc, pg) ==
    IF rs = <<>> THEN [result |-> None, all_domains |-> acc, page |-> pg]
    ELSE LET r == Head(rs).ret
         IN  IF r.kind # "Ok" THEN [result |-> r, all_domains |-> acc, page |-> pg]
             ELSE IF ~r.is_success
                  THEN [result |-> [kind |-> "ApiError", code |-> r.response_code,
                                    message |-> r.response_text],
                        all_domains |-> acc, page |-> pg]
                  ELSE LET more == acc \o r.attributes.exp_domains
                       IN  IF r.attributes.remainder = 0
                           THEN [result |-> [kind |-> "Ok", domains |-> more],
                                 all_domains |-> more, page |-> pg]
                           ELSE RunAlone(Tail(rs), more, pg + 1)

\* C13: calls share no mutable state.  With two calls on the same client,
\* their steps interleaved in any order, each call's accumulator, page index
\* and result are what the call would have when run alone against the
\* answers it got, and its requests ask for the pages 0, 1, 2, ... of its
\* own date range.
C13_CallsShareNoState ==
    \A c \in Calls :
        (Unsaturated(c) /\ pc[c] \notin {"idle", "parsed"})
        => LET alone == RunAlone(replies[c], <<>>, 0)
           IN  /\ result[c] = alone.result
               /\ all_domains[c] = alone.all_domains
               /\ page[c] = alone.page
               /\ \A i \in 1..Len(requests[c]) :
                     requests[c][i] = BuildRequest(args[c].exp_from, args[c].exp_to, i - 1)

\* Both calls have a request outstanding, the one for its second page after
\* a page with a domain, the other for its first page.
C13_Witness ==
    /\ pc["a"] = "awaiting" /\ page["a"] = 1 /\ all_domains["a"] = <<DomainA>>
    /\ pc["b"] = "awaiting" /\ page["b"] = 0
    /\ wire["a"] # <<>> /\ wire["b"] # <<>>

\* C15: every request of one call carries XCP, DOMAIN,
\* GET_DOMAINS_BY_EXPIREDATE, the call's two dates as YYYY-MM-DD, limit 40
\* and the number of requests issued before it as page: the first has page
\* 0 and the page index grows by exactly 1 from one request to the next, so
\* no page is skipped or requested twice.
C15_RequestsCountPagesUp ==
    /\ [](\A c \in MainCalls : \A i \in 1..Len(requests[c]) :
            /\ requests[c][i].protocol = "XCP"
            /\ requests[c][i].object = "DOMAIN"
            /\ requests[c][i].action = "GET_DOMAINS_BY_EXPIREDATE"
            /\ requests[c][i].attributes.exp_from = FormatDate(args[c].exp_from)
            /\ requests[c][i].attributes.exp_to = FormatDate(args[c].exp_to)
            /\ requests[c][i].attributes.limit = Some(40)
            /\ requests[c][i].attributes.page = Some(i - 1))
    /\ [][\A c \in MainCalls :
            /\ (pc[c] = "idle" /\ pc'[c] = "loop") => page'[c] = 0
            /\ (pc[c] = "parsed" /\ pc'[c] = "loop") => page'[c] = page[c] + 1]_vars

\* A non-blank text node that the scanner reads under key k inside the data
\* block.
TextUnder(s, ev, k) ==
    /\ ev.type = "Text" /\ ev.ok /\ Trim(ev.text) # <<>>
    /\ s.in_data_block /\ s.current_key = k

\* f_let_expire text observed inside the domains group while a record is in
\* progress.
SealingText(s, ev) ==
    TextUnder(s, ev, "f_let_expire") /\ s.in_exp_domains /\ s.current_domain # None

\* C16: a domain record is sealed and appended exactly when f_let_expire text
\* is observed inside the domains group while a record is in progress, and a
\* record is put in progress only by name text; expiredate, f_auto_renew or
\* f_let_expire text met when no record is in progress is dropped; a record
\* still in progress when the input ends is not appended, without error.
C16_SealedByLetExpire ==
    /\ [][(xml_pos' = xml_pos + 1 /\ xml_out' = None)
          => LET ev == xml_in[xml_pos']
             IN  /\ SealingText(scan, ev)
                    => /\ scan'.exp_domains =
                            Append(scan.exp_domains,
                                   [scan.current_domain EXCEPT !.f_let_expire = Trim(ev.text)])
                       /\ scan'.current_domain = None
                 /\ ~SealingText(scan, ev) => scan'.exp_domains = scan.exp_domains
                 /\ (scan.current_domain = None /\ scan'.current_domain # None)
                    => TextUnder(scan, ev, "name") /\ scan.in_exp_domains
                 /\ (/\ scan.current_domain = None
                     /\ \E k \in {"expiredate", "f_auto_renew", "f_let_expire"} :
                            TextUnder(scan, ev, k))
                    => scan' = scan]_vars
    /\ []((xml_out # None /\ xml_in \in PartialDocs \cup TruncatedDocs)
          => /\ xml_out.kind = "Ok"
             /\ xml_out.attributes.exp_domains = scan.exp_domains)

\* A response with a complete record and then one without f_let_expire has
\* been read: one domain is returned, the second record is still in progress.
C16_Witness ==
    /\ xml_out # None /\ xml_in \in PartialDocs
    /\ xml_out.kind = "Ok" /\ Len(xml_out.attributes.exp_domains) = 1
    /\ scan.current_domain # None
    /\ xml_out.attributes.exp_domains[1] = DomainA
    /\ scan.current_domain.name = DomainB.name

\* Texts that are not an unsigned integer of 32 bits: not a number, negative,
\* a number followed by something else, a fraction, 2^32.
UnparsableNumbers ==
    {<<"x">>, <<"-", "1">>, <<"1", "2", "a">>, <<"1", ".", "5">>,
     <<"4", "2", "9", "4", "9", "6", "7", "2", "9", "6">>}

NumberRead(text) ==
    CASE text \in UnparsableNumbers -> 0
      [] text = <<"7">> -> 7
      [] text = <<"+", "5">> -> 5

\* C17: page or total text that does not parse as an unsigned integer
\* (non-numeric, negative, out of range) sets that field to 0 and never
\* produces an error, and the rest of the document is still parsed; an error
\* is returned only where the reader met markup it cannot parse.
C17_LenientNumbers ==
    /\ xml_out = XmlDeserializeError
        => xml_pos >= 1 /\ xml_in[xml_pos].type = "Err"
    /\ (xml_out # None /\ xml_in \in NumericDocs)
        => \A f \in NumericFields :
             xml_in = ResponseDoc(f)
             => /\ xml_out.kind = "Ok"
                /\ xml_out.attributes.page = NumberRead(f.page)
                /\ xml_out.attributes.total = NumberRead(f.total)
                /\ xml_out.is_success
                /\ xml_out.response_code = f.response_code
                /\ xml_out.response_text = f.response_text
                /\ xml_out.attributes.exp_domains = f.domains
                /\ xml_out.attributes.remainder = 1

\* A response whose page is "12a" and whose total is 2^32 has been read to
\* its end.
C17_Witness ==
    /\ xml_out # None /\ xml_out.kind = "Ok"
    /\ xml_in \in NumericDocs
    /\ \E f \in NumericFields :
          /\ xml_in = ResponseDoc(f)
          /\ f.page = <<"1", "2", "a">>
          /\ f.total = <<"4", "2", "9", "4", "9", "6", "7", "2", "9", "6">>
    /\ xml_out.attributes.page = 0 /\ xml_out.attributes.total = 0
    /\ xml_out.attributes.remainder = 1

\* The texts that mean success: "1", and "true" in any letter case, with or
\* without blanks around them.
TruthTexts ==
    {<<"1">>, <<" ", "1", " ">>, <<"t", "r", "u", "e">>, <<"T", "R", "U", "E">>,
     <<"T", "r", "u", "e">>, <<"t", "R", "u", "E">>}

\* The text of the last is_success item that has text.
DecidingText(pair) ==
    IF pair[2] # None /\ pair[2].value # <<>> THEN pair[2].value ELSE pair[1]

\* C18: success is true if and only if the trimmed is_success text is "1" or
\* equals "true" ignoring case, every other text gives false, and of several
\* is_success texts in the data block the last one decides: each is_success
\* text sets success by that rule, and no other event changes it.
C18_SuccessIffOneOrTrue ==
    /\ [][(xml_pos' = xml_pos + 1 /\ xml_out' = None)
          => LET ev == xml_in[xml_pos']
             IN  IF TextUnder(scan, ev, "is_success")
                 THEN scan'.is_success = (ev.text \in TruthTexts)
                 ELSE scan'.is_success = scan.is_success]_vars
    /\ []((xml_out # None /\ xml_in \in SuccessDocs)
          => \A pair \in SuccessPairs :
                xml_in = SuccessDoc(pair)
                => /\ xml_out.kind = "Ok"
                   /\ xml_out.is_success = (DecidingText(pair) \in TruthTexts))

\* A response with is_success "TRUE" and then is_success "0" has been read:
\* success was true after the first and is false at the end.
C18_Witness ==
    /\ xml_out # None /\ xml_out.kind = "Ok" /\ ~xml_out.is_success
    /\ xml_in = SuccessDoc(<<<<"T", "R", "U", "E">>, Some(<<"0">>)>>)

\* The q-th event of the document lies outside the data block: no data_block
\* start-tag precedes it, or a data_block end-tag follows the last of them.
IsOutside(doc, q) ==
    LET opens == {i \in 1..(q - 1) : doc[i].type = "Start" /\ doc[i].name = "data_block"}
        closes == {i \in 1..(q - 1) : doc[i].type = "End" /\ doc[i].name = "data_block"}
    IN  \/ opens = {}
        \/ \E c \in closes : \A o \in opens : o < c

ResponseFields(s) ==
    <<s.is_success, s.response_code, s.response_text, s.page, s.total, s.remainder,
      s.exp_domains, s.current_domain>>

\* C19: a text node met before the data_block start-tag or after its end-tag
\* leaves success, code, message, page, total, remainder, the domains and the
\* record in progress unchanged, whatever key is current; a response with
\* such text gives what it gives without it.
C19_TextOutsideDataBlockIgnored ==
    /\ [][(/\ xml_pos' = xml_pos + 1 /\ xml_out' = None
           /\ xml_in[xml_pos'].type = "Text"
           /\ IsOutside(xml_in, xml_pos'))
          => ResponseFields(scan') = ResponseFields(scan)]_vars
    /\ []((xml_out # None /\ xml_in \in OutsideDocs)
          => /\ xml_out.kind = "Ok"
             /\ xml_out.is_success
             /\ xml_out.response_code = <<"2", "0", "0">>
             /\ xml_out.response_text = <<"o", "k">>
             /\ xml_out.attributes.page = 0
             /\ xml_out.attributes.total = 2
             /\ xml_out.attributes.remainder = 1
             /\ xml_out.attributes.exp_domains \in {<<>>, <<DomainA>>}
             /\ (xml_out.attributes.exp_domains = <<>>) = (scan.current_domain # None))

\* Text under the key f_let_expire was read after the end-tag of the data
\* block while a record was in progress: the record is still in progress
\* and no domain is returned.
C19_Witness ==
    /\ xml_out # None /\ xml_out.kind = "Ok" /\ xml_in \in OutsideDocs
    /\ scan.current_key = "f_let_expire" /\ scan.in_exp_domains
    /\ ~scan.in_data_block
    /\ scan.current_domain # None
    /\ xml_out.attributes.exp_domains = <<>>
    /\ xml_in[Len(xml_in) - 1] = TextEv(<<"9">>)

\* C20: for every page the POST body is the unmodified output of
\* serialize_request for that page's request, the signature header is
\* generate_signature of that same body and the client's credential (the hex
\* text of md5(hex(md5(body + credential)) + credential)), the username
\* header is the configured username and Content-Type is text/xml; the
\* request is serialized and signed before it is sent, a response is
\* deserialized only after the send, and a call that ends at the top of the
\* loop (serialization failed) has sent nothing.
C20_SignsWhatItSends ==
    /\ [][\A c \in MainCalls :
            Len(wire'[c]) > Len(wire[c])
            => LET sent == serialize_request(
                               BuildRequest(args[c].exp_from, args[c].exp_to, page[c]))
                   post == wire'[c][Len(wire'[c])]
                   first_hex == HexEncode(Md5(post.body \o <<"s3cret">>))
               IN  /\ sent.kind = "Ok"
                   /\ post.body = sent.xml
                   /\ post.x_signature = HexEncode(Md5(<<first_hex>> \o <<"s3cret">>))
                   /\ post.x_username = "reseller"
                   /\ post.content_type = "text/xml"
                   /\ pc[c] = "loop" /\ pc'[c] = "awaiting"
                   /\ body[c] = None /\ body'[c] = None]_vars
    /\ [][\A c \in MainCalls :
            (pc[c] = "loop" /\ pc'[c] = "returned") => wire'[c] = wire[c]]_vars
    /\ [](\A c \in MainCalls :
            body[c] # None => (pc[c] = "received" /\ wire[c] = <<>> /\ requests[c] # <<>>))

\* The signed request for the second page is on the wire.
C20_Witness ==
    \E c \in MainCalls :
        /\ pc[c] = "awaiting" /\ page[c] = 1 /\ wire[c] # <<>>
        /\ wire[c][1].body =
              serialize_request(BuildRequest(args[c].exp_from, args[c].exp_to, 1)).xml
        /\ wire[c][1].x_signature = generate_signature(wire[c][1].body, <<"s3cret">>)
        /\ wire[c][1].x_username = "reseller"

\* The start-tag of an item that carries a (well-formed) key attribute.
IsKeyedItem(ev) ==
    /\ ev.type = "Start" /\ ev.name = "item"
    /\ \E j \in 1..Len(ev.attrs) : ev.attrs[j].ok /\ ev.attrs[j].key = "key"

KeyOf(ev) ==
    LET js == {j \in 1..Len(ev.attrs) : ev.attrs[j].ok /\ ev.attrs[j].key = "key"}
    IN  ev.attrs[CHOOSE j \in js : \A i \in js : i <= j].value

\* The key of the most recent keyed item start-tag among the first q events
\* of the document.
MostRecentKey(doc, q) ==
    LET keyed == {i \in 1..q : IsKeyedItem(doc[i])}
    IN  IF keyed = {} THEN ""
        ELSE KeyOf(doc[CHOOSE i \in keyed : \A j \in keyed : j <= i])

\* C21: the current key is changed only by an item start-tag that carries a
\* key attribute, not by end-tags, by start-tags of other elements or by item
\* start-tags without a key; so the current key is that of the most recent
\* keyed item start-tag, and non-blank text inside the data block is
\* interpreted under it, whatever tags lie between.
C21_KeyIsOfLastKeyedItem ==
    /\ [][(xml_pos' = xml_pos + 1 /\ xml_out' = None)
          => LET ev == xml_in[xml_pos']
             IN  IF IsKeyedItem(ev)
                 THEN scan'.current_key = KeyOf(ev)
                 ELSE scan'.current_key = scan.current_key]_vars
    /\ [](scan.current_key = MostRecentKey(xml_in, xml_pos))
    /\ [][(/\ xml_pos' = xml_pos + 1 /\ xml_out' = None
           /\ xml_in[xml_pos'].type = "Text" /\ xml_in[xml_pos'].ok
           /\ Trim(xml_in[xml_pos'].text) # <<>>
           /\ ~IsOutside(xml_in, xml_pos'))
          => LET text == xml_in[xml_pos'].text
                 k == MostRecentKey(xml_in, xml_pos)
             IN  /\ k = "response_code" => scan'.response_code = Trim(text)
                 /\ k = "response_text" => scan'.response_text = Trim(text)
                 /\ k = "is_success" => scan'.is_success = (text \in TruthTexts)
                 /\ k \in {"", "zzz", "protocol"}
                    => ResponseFields(scan') = ResponseFields(scan)]_vars

\* Text in an item without a key, after the response_code item, has been
\* read as the response code.
C21_Witness ==
    /\ xml_out # None /\ xml_out.kind = "Ok" /\ xml_in \in StickyDocs
    /\ xml_out.response_code = <<"9">>
    /\ \E q \in 2..Len(xml_in) :
          /\ xml_in[q] = TextEv(<<"9">>)
          /\ xml_in[q - 1] = StartEv("item", <<>>)
          /\ MostRecentKey(xml_in, q) = "response_code"

\* The document has non-blank text inside a data block under one of the keys.
HasTextUnder(doc, keys) ==
    \E q \in 1..Len(doc) :
        /\ doc[q].type = "Text" /\ doc[q].ok /\ Trim(doc[q].text) # <<>>
        /\ ~IsOutside(doc, q)
        /\ MostRecentKey(doc, q) \in keys

WellFormed(doc) ==
    \A q \in 1..Len(doc) :
        /\ doc[q].type # "Err"
        /\ doc[q].type = "Text" => doc[q].ok
        /\ doc[q].type = "Start" => \A j \in 1..Len(doc[q].attrs) : doc[q].attrs[j].ok

NoSuccessText(doc) == WellFormed(doc) /\ ~HasTextUnder(doc, {"is_success"})

FieldKeys ==
    {"is_success", "response_code", "response_text", "page", "total", "remainder",
     "name", "expiredate", "f_auto_renew", "f_let_expire"}

NoFieldText(doc) == WellFormed(doc) /\ ~HasTextUnder(doc, FieldKeys)

\* success false, empty code and message, page 0, total 0, remainder 0, no
\* domains
EmptyResponse ==
    [kind |-> "Ok", is_success |-> FALSE, response_code |-> <<>>,
     response_text |-> <<>>,
     attributes |-> [page |-> 0, total |-> 0, remainder |-> 0, exp_domains |-> <<>>]]

\* The first response of the call was a body for which P holds.
FirstBodyIs(c, P(_)) ==
    /\ replies[c] # <<>>
    /\ replies[c][1].body # None
    /\ P(replies[c][1].body)

\* C22 as stated: a well-formed document without is_success text inside a
\* data block gives the response with success false, empty code and
\* message, page 0, total 0, remainder 0 and no domains, and the call fails
\* with ApiError with empty code and message after exactly one request.
C22_NoSuccessGivesEmptyResponse ==
    \A c \in MainCalls :
        FirstBodyIs(c, NoSuccessText)
        => /\ replies[c][1].ret = EmptyResponse
           /\ pc[c] # "parsed"
              => /\ Returned(c)
                 /\ result[c] = [kind |-> "ApiError", code |-> <<>>, message |-> <<>>]
                 /\ Len(requests[c]) = 1

\* C22, amended: a well-formed document without is_success text inside a
\* data block is not an error: it gives a response with success false, and,
\* when it has no text of any field inside a data block, with empty code and
\* message, page 0, total 0, remainder 0 and no domains; the call it is the
\* first answer to fails with ApiError carrying the code and the message of
\* that response (both empty in that case), after exactly one request.
C22_NoSuccessIsApiError ==
    \A c \in MainCalls :
        FirstBodyIs(c, NoSuccessText)
        => LET body1 == replies[c][1].body
               ret == replies[c][1].ret
           IN  /\ ret.kind = "Ok" /\ ~ret.is_success
               /\ NoFieldText(body1) => ret = EmptyResponse
               /\ pc[c] # "parsed"
                  => /\ Returned(c)
                     /\ result[c].kind = "ApiError"
                     /\ result[c].code = ret.response_code
                     /\ result[c].message = ret.response_text
                     /\ NoFieldText(body1)
                        => (result[c].code = <<>> /\ result[c].message = <<>>)
                     /\ Len(requests[c]) = 1 /\ Len(replies[c]) = 1
                     /\ wire[c] = <<>>

\* The empty document answered the first request: the call has failed with
\* ApiError with empty code and message.
C22_Witness ==
    \E c \in MainCalls :
        /\ Returned(c) /\ FirstBodyIs(c, NoFieldText)
        /\ replies[c][1].body = <<>>
        /\ replies[c][1].ret = EmptyResponse
        /\ result[c] = [kind |-> "ApiError", code |-> <<>>, message |-> <<>>]
        /\ Len(requests[c]) = 1

\* What the claim lets the engine depend on: is_success, response_code,
\* response_text, remainder and the domains of a response (or the error that
\* came in its place).
Depends(r) ==
    IF r.ret.kind = "Ok"
    THEN <<r.ret.is_success, r.ret.response_code, r.ret.response_text,
           r.ret.attributes.remainder, r.ret.attributes.exp_domains>>
    ELSE <<r.ret>>

SameButPageTotal(rs1, rs2) ==
    /\ Len(rs1) = Len(rs2)
    /\ \A i \in 1..Len(rs1) : Depends(rs1[i]) = Depends(rs2[i])

\* The call has acted on its last response: it waits for the next or is over.
AtRest(c) == pc[c] \in {"awaiting", "returned"}

\* C23: two runs with the same dates whose responses differ only in page and
\* total issue the same requests and return the same result; the engine
\* checks neither that a response's page is the page it asked for nor that
\* the number of domains matches total.
C23_BlindToPageAndTotal ==
    (/\ args["a"] = args["b"]
     /\ AtRest("a") /\ AtRest("b")
     /\ Unsaturated("a") /\ Unsaturated("b")
     /\ SameButPageTotal(replies["a"], replies["b"]))
    => /\ requests["a"] = requests["b"]
       /\ result["a"] = result["b"]
       /\ pc["a"] = pc["b"]
       /\ all_domains["a"] = all_domains["b"]

\* Both runs returned Ok with the same two domains after two pages; one got
\* page 0 and total 2 in every response, the other page 7 and total 0.
C23_Witness ==
    /\ args["a"] = args["b"]
    /\ Returned("a") /\ Returned("b")
    /\ result["a"] = [kind |-> "Ok", domains |-> <<DomainB, DomainA>>]
    /\ result["b"] = result["a"]
    /\ Len(replies["a"]) = 2 /\ SameButPageTotal(replies["a"], replies["b"])
    /\ \A i \in 1..2 :
          /\ replies["a"][i].ret.attributes.page = 0
          /\ replies["a"][i].ret.attributes.total = 2
          /\ replies["b"][i].ret.attributes.page = 7
          /\ replies["b"][i].ret.attributes.total = 0
    /\ Len(requests["b"]) = 2 /\ requests["a"] = requests["b"]

====
